---- MODULE Spec2Model ----
(***************************************************************************)
(* The bookmark manager of appv2.py (app.py is the same program without    *)
(* delete and duplicate detection): a Streamlit script over one worksheet  *)
(* of a Google spreadsheet.  Every click re-runs the script from the top.  *)
(*                                                                         *)
(* Text is a sequence of code points (Python str), so that lower(),        *)
(* strip(), urlparse(), str.contains() and the ordering of sort_values()   *)
(* are computed as Python computes them.  Cell values of the model are     *)
(* never numeric-looking text, so the number coercion of gspread's         *)
(* get_all_records leaves them as they are.                                *)
(***************************************************************************)
EXTENDS Integers, Sequences, FiniteSets, TLC

VARIABLES
    sheet,          \* the worksheet's non-blank rows, physical row 1 first
    blankRows,      \* blank grid rows below the last non-blank row
    search_query,   \* the text of the search box (widget state)
    last,           \* the click handled by the last run and its outcome;
                    \* conn is what the connection did, if it was used
    seen,           \* the non-blank rows as the last read of line 337 found
                    \* them: the snapshot the page on screen was built from
    external,       \* writes of other writers since that read
    reads           \* what the connection did during the two reads of the
                    \* last run (sidebar statistics, main area)

vars == <<sheet, blankRows, search_query, last, seen, external, reads>>

----------------------------------------------------------------------------
\* Bounds of the model.

MaxRows == 4

MaxBlank == 1

\* Writes of other writers between two reads of this session.
MaxExternal == 1

----------------------------------------------------------------------------
\* Text.

Range(s) == {s[i] : i \in 1..Len(s)}

\* str.lower() on ASCII text: A-Z become a-z.
lower(s) == [i \in 1..Len(s) |-> IF s[i] \in 65..90 THEN s[i] + 32 ELSE s[i]]

\* The ASCII characters str.strip() removes.
Whitespace == {9, 10, 11, 12, 13, 28, 29, 30, 31, 32}

RECURSIVE lstrip(_)
lstrip(s) ==
    IF s # <<>> /\ Head(s) \in Whitespace THEN lstrip(Tail(s)) ELSE s

RECURSIVE rstrip(_)
rstrip(s) ==
    IF s # <<>> /\ s[Len(s)] \in Whitespace
    THEN rstrip(SubSeq(s, 1, Len(s) - 1))
    ELSE s

strip(s) == rstrip(lstrip(s))

\* Python's < on str: by code point, a proper prefix first.
RECURSIVE str_lt(_, _)
str_lt(a, b) ==
    IF b = <<>> THEN FALSE
    ELSE IF a = <<>> THEN TRUE
    ELSE IF Head(a) # Head(b) THEN Head(a) < Head(b)
    ELSE str_lt(Tail(a), Tail(b))

\* str(n) of an int n >= 0.
RECURSIVE str_int(_)
str_int(n) ==
    IF n < 10 THEN <<48 + n>> ELSE str_int(n \div 10) \o <<48 + (n % 10)>>

\* n as w digits, zero padded (strftime's %Y, %m, %d, %H, %M, %S).
RECURSIVE zfill(_, _)
zfill(n, w) ==
    IF w = 0 THEN <<>> ELSE zfill(n \div 10, w - 1) \o <<48 + (n % 10)>>

\* strftime("%Y-%m-%d %H:%M:%S") of the instant t = <<Y, m, d, H, M, S>>.
strftime(t) ==
    zfill(t[1], 4) \o <<45>> \o zfill(t[2], 2) \o <<45>> \o zfill(t[3], 2)
        \o <<32>> \o zfill(t[4], 2) \o <<58>> \o zfill(t[5], 2)
        \o <<58>> \o zfill(t[6], 2)

\* re.search(pat, s, re.IGNORECASE) for a pattern of literal characters and
\* '.' (46, any character but a newline): what str.contains(pat, case=False)
\* does with its default regex=True.
str_contains(s, pat) ==
    \E off \in 0..(Len(s) - Len(pat)) :
        \A j \in 1..Len(pat) :
            \/ pat[j] = 46 /\ s[off + j] # 10
            \/ pat[j] # 46 /\ lower(<<pat[j]>>) = lower(<<s[off + j]>>)

----------------------------------------------------------------------------
\* urllib.parse.urlparse, as far as scheme and netloc go.

\* The characters a scheme may hold: letters, digits, + - .
scheme_chars == (65..90) \cup (97..122) \cup (48..57) \cup {43, 45, 46}

\* The position of the first element of s that is in set, or 0.
RECURSIVE find_first(_, _, _)
find_first(s, set, from) ==
    IF from > Len(s) THEN 0
    ELSE IF s[from] \in set THEN from
    ELSE find_first(s, set, from + 1)

urlparse(url) ==
    LET u == lstrip(url)
        i == find_first(u, {58}, 1)
        has_scheme ==
            /\ i > 1
            /\ u[1] \in (65..90) \cup (97..122)
            /\ \A k \in 1..(i - 1) : u[k] \in scheme_chars
        scheme == IF has_scheme THEN lower(SubSeq(u, 1, i - 1)) ELSE <<>>
        rest == IF has_scheme THEN SubSeq(u, i + 1, Len(u)) ELSE u
        has_netloc == Len(rest) >= 2 /\ rest[1] = 47 /\ rest[2] = 47
        delim == find_first(rest, {47, 63, 35}, 3)
        netloc ==
            IF ~has_netloc THEN <<>>
            ELSE IF delim = 0 THEN SubSeq(rest, 3, Len(rest))
            ELSE SubSeq(rest, 3, delim - 1)
    IN  [scheme |-> scheme, netloc |-> netloc]

\* validate_url checking the scheme alone.
validate_url_no_netloc(url) == urlparse(url).scheme # <<>>

\* Lines 245-259: a scheme and a host, both non-empty.
validate_url(url) ==
    LET result == urlparse(url)
    IN  result.scheme # <<>> /\ result.netloc # <<>>

----------------------------------------------------------------------------
\* The worksheet "main" (gspread over the Sheets API).

COL_date == <<100, 97, 116, 101>>
COL_title == <<116, 105, 116, 108, 101>>
COL_url == <<117, 114, 108>>
COL_category == <<99, 97, 116, 101, 103, 111, 114, 121>>
COL_tags == <<116, 97, 103, 115>>
COL_notes == <<110, 111, 116, 101, 115>>
COL_url_lower == <<117, 114, 108, 95, 108, 111, 119, 101, 114>>

required_columns ==
    <<COL_date, COL_title, COL_url, COL_category, COL_tags, COL_notes>>

\* append_row inserting below the header instead of after the last row.
append_row_first(ws, values) ==
    [rows |-> <<ws.rows[1], values>> \o SubSeq(ws.rows, 2, Len(ws.rows)),
     blank |-> IF ws.blank > 0 THEN ws.blank - 1 ELSE 0]

(* worksheet.append_row(values): the row goes after the last non-blank row; *)
(* it uses up a blank grid row if there is one, else the grid grows.        *)
append_row(ws, values) ==
    [rows |-> Append(ws.rows, values),
     blank |-> IF ws.blank > 0 THEN ws.blank - 1 ELSE 0]

\* delete_rows with an end index one too far: two rows go.
delete_rows_two(ws, r) ==
    LET n == Len(ws.rows)
    IN  IF r < 1 \/ r > n + ws.blank \/ n + ws.blank = 1
        THEN [raised |-> TRUE, ws |-> ws]
        ELSE [raised |-> FALSE,
              ws |-> [rows |-> SubSeq(ws.rows, 1, r - 1)
                                  \o SubSeq(ws.rows, r + 2, n),
                      blank |-> ws.blank]]

(* worksheet.delete_rows(r): one deleteDimension request for the physical   *)
(* row r.  The API refuses a row outside the grid and refuses to delete the *)
(* only row of the grid; a blank grid row is deleted like any other.        *)
delete_rows(ws, r) ==
    LET n == Len(ws.rows)
    IN  IF r < 1 \/ r > n + ws.blank \/ n + ws.blank = 1
        THEN [raised |-> TRUE, ws |-> ws]
        ELSE IF r <= n
        THEN [raised |-> FALSE,
              ws |-> [rows |-> SubSeq(ws.rows, 1, r - 1)
                                  \o SubSeq(ws.rows, r + 1, n),
                      blank |-> ws.blank]]
        ELSE [raised |-> FALSE,
              ws |-> [rows |-> ws.rows, blank |-> ws.blank - 1]]

(* worksheet.get_all_records(): row 1 gives the keys, every later row a     *)
(* dict; a header that repeats a key raises.                                *)
get_all_records(ws) ==
    IF Len(ws.rows) = 0 THEN [raised |-> FALSE, keys |-> <<>>, data |-> <<>>]
    ELSE
        LET keys == ws.rows[1]
            pos(k) == CHOOSE i \in 1..Len(keys) : keys[i] = k
        IN  IF Cardinality(Range(keys)) < Len(keys)
            THEN [raised |-> TRUE, keys |-> <<>>, data |-> <<>>]
            ELSE [raised |-> FALSE,
                  keys |-> IF Len(ws.rows) = 1 THEN <<>> ELSE keys,
                  data |-> [i \in 1..(Len(ws.rows) - 1) |->
                              [k \in Range(keys) |-> ws.rows[i + 1][pos(k)]]]]

----------------------------------------------------------------------------
\* Data frames: the column names, the index labels and the rows (a function
\* from column name to cell per row).

empty_frame == [columns |-> required_columns, index |-> <<>>, rows |-> <<>>]

\* pd.DataFrame(): no columns, no rows.
no_frame == [columns |-> <<>>, index |-> <<>>, rows |-> <<>>]

(* get_bookmarks() in full: the frame it returns and what it puts on the   *)
(* page.  conn is what the connection does during the call: "none" is       *)
(* init_gsheets_connection() returning None, after its own st.error (an     *)
(* element of the cached function, shown again on every call); "raise" is   *)
(* an exception of worksheet("main") or of the read, also the one           *)
(* get_all_records raises itself.  The handler shows the error details      *)
(* unless current_context is "sidebar".  A read that succeeds gives the     *)
(* records as a frame with a RangeIndex, every required column that is      *)
(* missing added with "".                                                   *)
(* The contexts are "sidebar" (line 267) and "main" (line 332), so that the *)
(* test of line 138, "sidebar" not in current_context, is an inequality.    *)
get_bookmarks_page(ws, conn, current_context) ==
    IF conn = "none" THEN [frame |-> empty_frame, reported |-> TRUE]
    ELSE
        LET rec == get_all_records(ws)
            have == Range(rec.keys)
            missing == SelectSeq(required_columns, LAMBDA c : c \notin have)
        IN  IF conn = "raise" \/ rec.raised
            THEN [frame |-> empty_frame,
                  reported |-> current_context # "sidebar"]
            ELSE [frame |->
                    [columns |-> rec.keys \o missing,
                     index |-> [i \in 1..Len(rec.data) |-> i - 1],
                     rows |-> [i \in 1..Len(rec.data) |->
                                 [c \in have \cup Range(missing) |->
                                    IF c \in have THEN rec.data[i][c]
                                    ELSE <<>>]]],
                  reported |-> FALSE]

(* get_bookmarks(): the frame alone.  No connection (up = FALSE) gives the  *)
(* empty frame.                                                             *)
get_bookmarks(ws, up) ==
    get_bookmarks_page(ws, IF up THEN "ok" ELSE "none", "main").frame

\* The row list save_bookmark hands to append_row.
row_values(new_row_data) ==
    <<new_row_data.date, new_row_data.title, new_row_data.url,
      new_row_data.category, new_row_data.tags, new_row_data.notes>>

(* save_bookmark(new_row_data).  conn is what the connection does in this   *)
(* call: "ok", "none" (init_gsheets_connection returns None) or "raise"     *)
(* (the API call raises).  calls lists the write requests sent.             *)
save_bookmark(ws, new_row_data, conn) ==
    IF conn = "none"
    THEN [ok |-> FALSE, msg |-> "Failed to connect to Google Sheets",
          ws |-> ws, calls |-> <<>>]
    ELSE
        LET call == [fn |-> "append_row", at |-> 0,
                     values |-> row_values(new_row_data)]
        IN  IF conn = "raise"
            THEN [ok |-> FALSE, msg |-> "Error saving", ws |-> ws,
                  calls |-> <<call>>]
            ELSE [ok |-> TRUE, msg |-> "Bookmark saved successfully!",
                  ws |-> append_row(ws, row_values(new_row_data)),
                  calls |-> <<call>>]

\* The offset without the header row.
sheet_row_number_plus1(row_index) == row_index + 1

sheet_row_number_plus3(row_index) == row_index + 3

\* Line 213: the physical row of the logical index row_index.
sheet_row_number(row_index) == row_index + 2

(* delete_bookmark(row_index): no check of row_index against the sheet; the *)
(* only failures are no connection and an API call that raises.             *)
delete_bookmark(ws, row_index, conn) ==
    IF conn = "none"
    THEN [ok |-> FALSE, msg |-> "Failed to connect to Google Sheets",
          ws |-> ws, calls |-> <<>>]
    ELSE
        LET call == [fn |-> "delete_rows", at |-> sheet_row_number(row_index),
                     values |-> <<>>]
            res == delete_rows(ws, sheet_row_number(row_index))
        IN  IF conn = "raise" \/ res.raised
            THEN [ok |-> FALSE, msg |-> "Error deleting", ws |-> ws,
                  calls |-> <<call>>]
            ELSE [ok |-> TRUE, msg |-> "Bookmark deleted successfully!",
                  ws |-> res.ws, calls |-> <<call>>]

----------------------------------------------------------------------------
\* Duplicate detection.

\* The key of find_duplicates (line 238) and of tab 2 (line 419).
url_key(url) == strip(lower(url))

(* d.sort_values(col): the rows in ascending order of the column; rows with *)
(* equal values are kept in their order.                                    *)
sort_values(d, col) ==
    LET n == Len(d.rows)
        before(j, i) ==
            \/ str_lt(d.rows[j][col], d.rows[i][col])
            \/ d.rows[j][col] = d.rows[i][col] /\ j < i
        rank(i) == Cardinality({j \in 1..n : before(j, i)}) + 1
        at(r) == CHOOSE i \in 1..n : rank(i) = r
    IN  [columns |-> d.columns,
         index |-> [r \in 1..n |-> d.index[at(r)]],
         rows |-> [r \in 1..n |-> d.rows[at(r)]]]

\* The positions at which a boolean mask is true, ascending.
RECURSIVE where(_, _)
where(mask, from) ==
    IF from > Len(mask) THEN <<>>
    ELSE (IF mask[from] THEN <<from>> ELSE <<>>) \o where(mask, from + 1)

\* d[mask]: the rows the mask keeps, with their index labels.
take(d, keep) ==
    [columns |-> d.columns,
     index |-> [r \in 1..Len(keep) |-> d.index[keep[r]]],
     rows |-> [r \in 1..Len(keep) |-> d.rows[keep[r]]]]

\* d.drop(columns=[col]).
drop_column(d, col) ==
    [columns |-> SelectSeq(d.columns, LAMBDA c : c # col),
     index |-> d.index,
     rows |-> [r \in 1..Len(d.rows) |->
                 [c \in (DOMAIN d.rows[r]) \ {col} |-> d.rows[r][c]]]]

\* d[col] = values, in place: a new column goes last.
set_column(d, col, values) ==
    [columns |-> IF col \in Range(d.columns) THEN d.columns
                 ELSE Append(d.columns, col),
     index |-> d.index,
     rows |-> [r \in 1..Len(d.rows) |->
                 [c \in (DOMAIN d.rows[r]) \cup {col} |->
                    IF c = col THEN values[r] ELSE d.rows[r][c]]]]

(* find_duplicates(d): result is the frame returned, df the caller's frame  *)
(* as the call leaves it (line 238 assigns the column url_lower in place).  *)
find_duplicates(d) ==
    IF Len(d.rows) = 0 THEN [df |-> d, result |-> no_frame]
    ELSE
        LET d1 == set_column(d, COL_url_lower,
                             [r \in 1..Len(d.rows) |->
                                url_key(d.rows[r][COL_url])])
            duplicated ==
                [i \in 1..Len(d1.rows) |->
                   \E j \in 1..Len(d1.rows) :
                      /\ j # i
                      /\ d1.rows[j][COL_url_lower] = d1.rows[i][COL_url_lower]]
            duplicates == take(d1, where(duplicated, 1))
        IN  [df |-> d1,
             result |-> sort_values(drop_column(duplicates, COL_url_lower),
                                    COL_url)]

\* Series.unique(): the values in order of first appearance.
RECURSIVE unique(_)
unique(s) ==
    IF s = <<>> THEN <<>>
    ELSE LET u == unique(SubSeq(s, 1, Len(s) - 1))
         IN  IF s[Len(s)] \in Range(u) THEN u ELSE Append(u, s[Len(s)])

(* Tab 2 (lines 408-448): one group per distinct url of the duplicates      *)
(* frame; its rows are the rows of d with that url's key, each with its     *)
(* index label as original_index.                                           *)
tab2(d, duplicates) ==
    LET urls == unique([r \in 1..Len(duplicates.rows) |->
                          duplicates.rows[r][COL_url]])
        url_dupes(url) ==
            take(d, where([i \in 1..Len(d.rows) |->
                             url_key(d.rows[i][COL_url]) = url_key(url)], 1))
    IN  [g \in 1..Len(urls) |->
           LET copies == url_dupes(urls[g])
           IN  [url |-> urls[g],
                rows |-> [r \in 1..Len(copies.rows) |->
                            [original_index |-> copies.index[r],
                             row |-> copies.rows[r]]]]]

(* Tab 1 (lines 348-362): the frame reversed, original_index counting down  *)
(* from len(df) - 1, then the search mask over every column of the row,     *)
(* original_index among them.                                               *)
\* Tab 1 with the rows numbered after the search has filtered them.
tab1_numbered_after_search(d, q) ==
    LET n == Len(d.rows)
        reversed == [k \in 1..n |-> [original_index |-> 0,
                                      row |-> d.rows[n + 1 - k]]]
        mask(r) == \E c \in DOMAIN r.row : str_contains(r.row[c], q)
        kept == IF q # <<>> THEN SelectSeq(reversed, mask) ELSE reversed
    IN  [k \in 1..Len(kept) |->
           [original_index |-> Len(kept) - k, row |-> kept[k].row]]

tab1(d, q) ==
    LET n == Len(d.rows)
        display_df == [k \in 1..n |->
                         [original_index |-> n - k, row |-> d.rows[n + 1 - k]]]
        mask(r) ==
            \/ \E c \in DOMAIN r.row : str_contains(r.row[c], q)
            \/ str_contains(str_int(r.original_index), q)
    IN  IF q # <<>> THEN SelectSeq(display_df, mask) ELSE display_df

----------------------------------------------------------------------------
\* What the user can enter, and what the environment can do.

\* Title: "" and "t".
Titles == {<<>>, <<116>>}

\* URL: "", "x:a" (no host), "//a" (no scheme), "x://a", "x://B", "x://b ".
Urls ==
    {<<>>, <<120, 58, 97>>, <<47, 47, 97>>,
     <<120, 58, 47, 47, 97>>, <<120, 58, 47, 47, 66>>,
     <<120, 58, 47, 47, 98, 32>>}

\* The category of the select box: "Tools".
Categories == {<<84, 111, 111, 108, 115>>}

\* Tags and notes: "".
Tags == {<<>>}

Notes == {<<>>}

\* datetime.now(): 2024-05-23 09:45:36.
Clock == {<<2024, 5, 23, 9, 45, 36>>}

\* Search box: "", "A", "1", ".".
Queries == {<<>>, <<65>>, <<49>>, <<46>>}

\* What the connection does during one call.
Conn == {"ok", "none", "raise"}

\* The rows another writer puts in: "t" under "x://a" or "x://B".
OtherRows ==
    {row_values([date |-> strftime(now), title |-> <<116>>, url |-> u,
                 category |-> c, tags |-> <<>>, notes |-> <<>>]) :
       now \in Clock, c \in Categories,
       u \in {<<120, 58, 47, 47, 97>>, <<120, 58, 47, 47, 66>>}}

(* What the connection does during the two reads of one run.  The          *)
(* connection object is cached, so it is None for both reads or for         *)
(* neither; each read raises on its own.                                    *)
ReadOutcomes ==
    {[sidebar |-> s, main |-> m] : s \in Conn, m \in Conn} \
       {rd \in [sidebar : Conn, main : Conn] :
          (rd.sidebar = "none") # (rd.main = "none")}

----------------------------------------------------------------------------
\* The script run.

worksheet == [rows |-> sheet, blank |-> blankRows]

\* The form with nothing entered.
no_candidate ==
    [date |-> <<>>, title |-> <<>>, url |-> <<>>, category |-> <<>>,
     tags |-> <<>>, notes |-> <<>>]

\* No record: the click was on no delete button of the page.
no_record == <<>>

\* A run that handles no button.
no_click(ws) ==
    [op |-> "none", candidate |-> no_candidate, index |-> 0, conn |-> "ok",
     ok |-> FALSE, msg |-> "", before |-> ws, calls |-> <<>>,
     selected |-> no_record]

\* Both reads of a run succeed.
reads_ok == [sidebar |-> "ok", main |-> "ok"]

\* The worksheet as the read of line 337 found it.
snapshot == [rows |-> seen, blank |-> blankRows]

\* Lines 319-329: the read of the sidebar statistics.
df_stats == get_bookmarks_page(snapshot, reads.sidebar, "sidebar")

\* Line 337: the read of the main area.
df_main == get_bookmarks_page(snapshot, reads.main, "main")

\* Line 337: the frame the page on screen is built from.
df == df_main.frame

\* Tab 1 of the run: the rows rendered, each with its delete button.
shown == tab1(df, search_query)

\* Line 408: find_duplicates(df), the frame returned and df after the call.
dup == find_duplicates(df)

\* Tab 2 of the run: the duplicate groups rendered, in order.
groups == tab2(dup.df, dup.result)

(* Every run ends with the page of the worksheet ws and the search text q,  *)
(* read at the end of the run.                                              *)
Render(ws, q) ==
    /\ sheet' = ws.rows
    /\ blankRows' = ws.blank
    /\ search_query' = q
    /\ seen' = ws.rows
    /\ external' = 0
    /\ reads' = reads_ok

Init ==
    /\ sheet = <<required_columns>>
    /\ blankRows \in 0..MaxBlank
    /\ search_query = <<>>
    /\ last = no_click(worksheet)
    /\ seen = sheet
    /\ external = 0
    /\ reads = reads_ok

\* The messages of the checks that come before any use of the connection.
validation_messages ==
    {"Please enter a valid URL", "Title and URL are required!"}

\* The button without its checks.
SaveHandler_unchecked(ws, new_row_data, conn) ==
    save_bookmark(ws, new_row_data, conn)

(* Lines 289-315: the Save Bookmark button, new_row_data holding the form   *)
(* and the time of the click.                                               *)
SaveHandler(ws, new_row_data, conn) ==
    IF new_row_data.url # <<>> /\ new_row_data.title # <<>>
    THEN IF ~validate_url(new_row_data.url)
         THEN [ok |-> FALSE, msg |-> "Please enter a valid URL",
               ws |-> ws, calls |-> <<>>]
         ELSE save_bookmark(ws, new_row_data, conn)
    ELSE [ok |-> FALSE, msg |-> "Title and URL are required!",
          ws |-> ws, calls |-> <<>>]

\* The run in which Save Bookmark is pressed; a success ends in st.rerun().
SaveClick ==
    \E new_title \in Titles, new_url \in Urls, new_cat \in Categories,
       new_tags \in Tags, new_notes \in Notes, now \in Clock, conn \in Conn :
        LET new_row_data ==
                [date |-> strftime(now), title |-> new_title, url |-> new_url,
                 category |-> new_cat, tags |-> new_tags, notes |-> new_notes]
            res == SaveHandler(worksheet, new_row_data, conn)
        IN  /\ Len(res.ws.rows) <= MaxRows + 1
            /\ last' = [op |-> "save", candidate |-> new_row_data, index |-> 0,
                        conn |-> IF res.msg \in validation_messages
                                 THEN "unused" ELSE conn,
                        ok |-> res.ok, msg |-> res.msg,
                        before |-> worksheet, calls |-> res.calls,
                        selected |-> no_record]
            /\ Render(res.ws, search_query)

(* The run a delete button starts: the click on the button next to the     *)
(* record selected, delete_bookmark on the worksheet as it is by then, the  *)
(* page.                                                                    *)
DeleteRun(row_index, conn, selected) ==
    LET res == delete_bookmark(worksheet, row_index, conn)
    IN  /\ last' = [op |-> "delete", candidate |-> no_candidate,
                    index |-> row_index, conn |-> conn, ok |-> res.ok,
                    msg |-> res.msg, before |-> worksheet, calls |-> res.calls,
                    selected |-> selected]
        /\ Render(res.ws, search_query)

\* The indexes the delete buttons of tab 1 pass (key delete_<index>).
tab1_buttons ==
    LET rendered == shown
    IN  {rendered[k].original_index : k \in 1..Len(rendered)}

\* The indexes the delete buttons of tab 2 pass (key dup_delete_<idx>).
tab2_buttons ==
    LET rendered == groups
    IN  UNION {{rendered[g].rows[r].original_index :
                  r \in 1..Len(rendered[g].rows)} : g \in 1..Len(rendered)}

\* The record as the page shows it: the six fields of the row.
displayed(row) == [c \in Range(required_columns) |-> row[c]]

\* The delete buttons of tab 1: the index each passes, the record next to it.
tab1_entries ==
    LET rendered == shown
    IN  {[original_index |-> rendered[k].original_index,
          row |-> displayed(rendered[k].row)] : k \in 1..Len(rendered)}

\* The delete buttons of tab 2, likewise.
tab2_entries ==
    LET rendered == groups
    IN  UNION {{[original_index |-> rendered[g].rows[r].original_index,
                 row |-> displayed(rendered[g].rows[r].row)] :
                  r \in 1..Len(rendered[g].rows)} : g \in 1..Len(rendered)}

\* Lines 380-392: a delete button of tab 1.
DeleteClick ==
    \E e \in tab1_entries, conn \in Conn :
        DeleteRun(e.original_index, conn, e.row)

\* Lines 439-448: a delete button of tab 2.
DupDeleteClick ==
    \E e \in tab2_entries, conn \in Conn :
        DeleteRun(e.original_index, conn, e.row)

\* Lines 344-346: a new text in the search box.
Search ==
    \E q \in Queries :
        /\ q # search_query
        /\ last' = no_click(worksheet)
        /\ Render(worksheet, q)

\* delete_bookmark called with any index, as its contract allows.
DeleteCall ==
    \E row_index \in (0 - 2)..(MaxRows + 1), conn \in Conn :
        DeleteRun(row_index, conn, no_record)

(* A run that handles no button (the page is loaded again, or a widget that *)
(* changes nothing is touched), the connection doing rd during its reads.   *)
Rerun(rd) ==
    /\ last' = no_click(worksheet)
    /\ sheet' = sheet
    /\ blankRows' = blankRows
    /\ search_query' = search_query
    /\ seen' = sheet
    /\ external' = 0
    /\ reads' = rd

Reload == Rerun(reads_ok)

ReloadAny == \E rd \in ReadOutcomes : Rerun(rd)

(* Another writer (a second session, an edit in the spreadsheet) removes    *)
(* the data row at physical row r.  The page of this session stays as it is. *)
ExternalDelete ==
    \E r \in 2..Len(sheet) :
        /\ external < MaxExternal
        /\ sheet' = SubSeq(sheet, 1, r - 1) \o SubSeq(sheet, r + 1, Len(sheet))
        /\ external' = external + 1
        /\ UNCHANGED <<blankRows, search_query, last, seen, reads>>

(* Another writer puts a row in at physical row r: above the rows from r    *)
(* on, or, with r past the last row, after them as save_bookmark does.      *)
ExternalInsert ==
    \E r \in 2..(Len(sheet) + 1), row \in OtherRows :
        /\ external < MaxExternal
        /\ Len(sheet) <= MaxRows
        /\ sheet' = SubSeq(sheet, 1, r - 1) \o <<row>>
                       \o SubSeq(sheet, r, Len(sheet))
        /\ external' = external + 1
        /\ UNCHANGED <<blankRows, search_query, last, seen, reads>>

Next == SaveClick \/ DeleteClick \/ DupDeleteClick \/ Search

Spec == Init /\ [][Next]_vars

NextCall == SaveClick \/ DeleteCall

SpecCall == Init /\ [][NextCall]_vars

\* This session next to a second writer on the same worksheet.
NextRace ==
    ExternalInsert \/ ExternalDelete \/ Reload \/ DeleteClick \/ DupDeleteClick

SpecRace == Init /\ [][NextRace]_vars

\* Runs whose reads can fail.
NextReads == SaveClick \/ DeleteClick \/ ReloadAny

SpecReads == Init /\ [][NextReads]_vars

----------------------------------------------------------------------------
\* Properties.

\* fetchAll: the records of a worksheet in store order.
fetchAll(ws) == get_bookmarks(ws, TRUE).rows

\* The record a candidate becomes once stored.
record_of(c) ==
    [k \in Range(required_columns) |->
       IF k = COL_date THEN c.date
       ELSE IF k = COL_title THEN c.title
       ELSE IF k = COL_url THEN c.url
       ELSE IF k = COL_category THEN c.category
       ELSE IF k = COL_tags THEN c.tags
       ELSE c.notes]

\* s without its i-th element (1-based).
without(s, i) == SubSeq(s, 1, i - 1) \o SubSeq(s, i + 1, Len(s))

valid_index(i, ws) == 0 <= i /\ i < Len(fetchAll(ws))

C2_OutOfRangeRejected ==
    (last.op = "delete" /\ ~valid_index(last.index, last.before))
        => /\ ~last.ok
           /\ worksheet = last.before

missing_field(c) == c.title = <<>> \/ c.url = <<>>

invalid_url(c) ==
    urlparse(c.url).scheme = <<>> \/ urlparse(c.url).netloc = <<>>

(* C4: an add whose candidate has an empty title or url reports the missing *)
(* field, one whose url has no scheme or no host reports the invalid url;   *)
(* neither sends a request, and fetchAll returns what it returned before.   *)
C4_ValidationRejects ==
    (last.op = "save" /\ (missing_field(last.candidate) \/ invalid_url(last.candidate)))
        => /\ ~last.ok
           /\ last.msg = IF missing_field(last.candidate)
                         THEN "Title and URL are required!"
                         ELSE "Please enter a valid URL"
           /\ last.calls = <<>>
           /\ worksheet = last.before
           /\ fetchAll(worksheet) = fetchAll(last.before)

\* C4 happens: a url with a scheme and no host is refused on a store that
\* holds records.
C4_Witness ==
    /\ last.op = "save" /\ ~last.ok
    /\ last.candidate.title # <<>>
    /\ urlparse(last.candidate.url).scheme # <<>>
    /\ urlparse(last.candidate.url).netloc = <<>>
    /\ last.msg = "Please enter a valid URL"
    /\ Len(fetchAll(worksheet)) >= 1

(* C5: every record of the store has a non-empty title, a non-empty url,    *)
(* and a url with a non-empty scheme and a non-empty host.                  *)
C5_PersistedValid ==
    \A i \in 1..Len(fetchAll(worksheet)) :
        LET r == fetchAll(worksheet)[i]
        IN  /\ r[COL_title] # <<>>
            /\ r[COL_url] # <<>>
            /\ urlparse(r[COL_url]).scheme # <<>>
            /\ urlparse(r[COL_url]).netloc # <<>>

\* C5 happens: records remain after adds and a remove.
C5_Witness ==
    /\ last.op = "delete" /\ last.ok
    /\ Len(fetchAll(worksheet)) >= 2

(* C6: an add of a valid candidate that reaches the store succeeds with one *)
(* append request, and fetchAll then returns what it returned before with   *)
(* the new record last, also when the url is already stored.                *)
C6_AppendLast ==
    /\ (last.op = "save" /\ last.conn = "ok"
          /\ ~missing_field(last.candidate) /\ ~invalid_url(last.candidate))
         => last.ok
    /\ (last.op = "save" /\ last.ok)
         => /\ fetchAll(worksheet)
                 = Append(fetchAll(last.before), record_of(last.candidate))
            /\ Len(last.calls) = 1 /\ last.calls[1].fn = "append_row"

\* C6 happens: the url added is the url of a record that is not the last one.
C6_Witness ==
    /\ last.op = "save" /\ last.ok
    /\ Len(fetchAll(last.before)) >= 2
    /\ fetchAll(last.before)[1][COL_url] = last.candidate.url
    /\ fetchAll(last.before)[Len(fetchAll(last.before))][COL_url] # last.candidate.url
    /\ fetchAll(worksheet)[Len(fetchAll(worksheet))][COL_url] = last.candidate.url

\* s in reverse order.
reverse(s) == [k \in 1..Len(s) |-> s[Len(s) + 1 - k]]

\* pat occurs in s as a substring, letter case ignored.
is_substring(pat, s) ==
    \E off \in 0..(Len(s) - Len(pat)) :
        \A j \in 1..Len(pat) : lower(pat)[j] = lower(s)[off + j]

(* C7: tab 1 lists the records of fetchAll in reverse order; with a search  *)
(* text it lists, in that order, exactly the records of which at least one  *)
(* of the fields date, title, url, category, tags, notes holds the text as  *)
(* a case-insensitive substring.                                            *)
C7_ListAndFilter ==
    LET newest_first == reverse(fetchAll(worksheet))
        keep(r) ==
            \E c \in Range(required_columns) : is_substring(search_query, r[c])
        listed == [k \in 1..Len(shown) |-> shown[k].row]
    IN  listed = IF search_query = <<>> THEN newest_first
                 ELSE SelectSeq(newest_first, keep)

\* The logical indexes (0-based) of the records with the key k.
with_key(k) ==
    {i \in 0..(Len(fetchAll(worksheet)) - 1) :
       url_key(fetchAll(worksheet)[i + 1][COL_url]) = k}

\* The keys that at least 2 records share.
shared_keys ==
    {k \in {url_key(fetchAll(worksheet)[i][COL_url]) :
              i \in 1..Len(fetchAll(worksheet))} : Cardinality(with_key(k)) >= 2}

(* C8: tab 2 shows one group per key trim(lowercase(url)) that at least 2   *)
(* records share, each once, holding all and only the records with the key. *)
C8_OneGroupPerKey ==
    LET rendered == groups
    IN  /\ Len(rendered) = Cardinality(shared_keys)
        /\ \A g \in 1..Len(rendered) :
             /\ url_key(rendered[g].url) \in shared_keys
             /\ Len(rendered[g].rows)
                  = Cardinality(with_key(url_key(rendered[g].url)))
             /\ {rendered[g].rows[r].original_index :
                   r \in 1..Len(rendered[g].rows)}
                  = with_key(url_key(rendered[g].url))
        /\ \A g, h \in 1..Len(rendered) :
             g # h => url_key(rendered[g].url) # url_key(rendered[h].url)

(* C9: the groups of tab 2 come in the lexicographic order of their key,    *)
(* and the records of a group in ascending logical index.                   *)
C9_GroupOrder ==
    LET rendered == groups
    IN  /\ \A g, h \in 1..Len(rendered) :
             g < h => ~str_lt(url_key(rendered[h].url), url_key(rendered[g].url))
        /\ \A g \in 1..Len(rendered) :
             \A r, t \in 1..Len(rendered[g].rows) :
                r < t => rendered[g].rows[r].original_index
                           < rendered[g].rows[t].original_index

(* C10: find_duplicates leaves the frame it was given as it was (columns,   *)
(* index, rows), and a second call on that frame returns what the first     *)
(* call returned.                                                           *)
C10_Pure ==
    /\ dup.df = df
    /\ find_duplicates(dup.df).result = dup.result

(* C11: next to a second writer, a delete button passes the index it got    *)
(* from the snapshot of its page, and delete_bookmark applies it to the     *)
(* worksheet as it is by then.  A delete that reports success has removed   *)
(* the record at that index of the worksheet at the time of the delete, if  *)
(* there is one, and no other; the record the user selected has lost a copy *)
(* exactly when it is that record.  (The state in which another record is   *)
(* gone and the selected one remains is C11_Witness.)                       *)
copies(rec, records) ==
    Cardinality({i \in 1..Len(records) : records[i] = rec})

C11_RacingDelete ==
    (last.op = "delete" /\ last.ok /\ last.selected # no_record)
        => LET before == fetchAll(last.before)
               after == fetchAll(snapshot)
               hit == /\ valid_index(last.index, last.before)
                      /\ before[last.index + 1] = last.selected
           IN  /\ after = IF valid_index(last.index, last.before)
                          THEN without(before, last.index + 1) ELSE before
               /\ copies(last.selected, after)
                     = copies(last.selected, before) - (IF hit THEN 1 ELSE 0)

(* C11 happens: the delete has removed a record that is not the selected    *)
(* one, and every copy of the selected one is still there.                  *)
C11_Witness ==
    /\ last.op = "delete" /\ last.ok /\ last.selected # no_record
    /\ valid_index(last.index, last.before)
    /\ fetchAll(last.before)[last.index + 1] # last.selected
    /\ fetchAll(snapshot) = without(fetchAll(last.before), last.index + 1)
    /\ copies(last.selected, fetchAll(snapshot)) >= 1
    /\ copies(last.selected, fetchAll(snapshot))
         = copies(last.selected, fetchAll(last.before))

(* C12: when the store cannot be reached (no connection, or the read        *)
(* raises) get_bookmarks gives the empty frame, so the page shows what it   *)
(* shows for an empty store; in the sidebar and in the main area alike the  *)
(* failure is reported and a read that succeeds, also of an empty store,    *)
(* reports nothing; and a run that only reads leaves the worksheet as it    *)
(* was.                                                                     *)
read_failed(conn, ws) == conn # "ok" \/ get_all_records(ws).raised

C12_FailureReported ==
    LET sidebar == df_stats
        main == df_main
    IN  /\ read_failed(reads.sidebar, snapshot)
             => sidebar.frame = empty_frame /\ sidebar.reported
        /\ read_failed(reads.main, snapshot)
             => main.frame = empty_frame /\ main.reported
        /\ ~read_failed(reads.sidebar, snapshot) => ~sidebar.reported
        /\ ~read_failed(reads.main, snapshot) => ~main.reported
        /\ last.op = "none" => worksheet = last.before

====
